---- MODULE Spec2Model ----
(***************************************************************************)
(* Auto-Sub: the subtitle generation session (src/App.tsx), the request    *)
(* builder and reply handling of transcribeAndTranslateMedia               *)
(* (src/services/gemini.ts) and the SRT serializer (src/unnamed/part_001). *)
(***************************************************************************)
EXTENDS Integers, Sequences, FiniteSets, TLC

VARIABLES
    file,            \* App state: the selected File, or NoFile (null)
    youtubeUrl,      \* App state: the link field
    loading,         \* App state
    error,           \* App state: the message shown, or NoError (null)
    subtitles,       \* App state: whatever setSubtitles last stored
    targetLanguage,  \* App state
    gens,            \* the asynchronous invocations that have not settled yet
    settled,         \* the last promise of transcribeAndTranslateMedia that settled
    generatedFor,    \* the generation whose response setSubtitles last stored
    download,        \* the last call of downloadFile, NotCalled before the first
    LocalTZA,        \* the host: milliseconds its time zone was ahead of UTC on 1 January 1970
    input,           \* the serializer function called on its own: its argument
    output           \* ... and what it returned, NotCalled before the call

session ==
    <<file, youtubeUrl, loading, error, subtitles, targetLanguage, gens, settled,
      generatedFor, download>>
serializer == <<LocalTZA, input, output>>
vars == <<session, serializer>>

-----------------------------------------------------------------------------
(* JavaScript values, as far as the replies of the service need them.      *)

Undefined == [t |-> "undefined", v |-> <<>>]
Null == [t |-> "null", v |-> <<>>]
Num(n) == [t |-> "number", v |-> n]
Str(s) == [t |-> "string", v |-> s]
Arr(s) == [t |-> "array", v |-> s]
Obj(fields) == [t |-> "object", v |-> fields]

\* o.name: undefined for a missing property and for a primitive;
\* the caller handles null and undefined, on which the read throws.
Get(o, name) ==
    IF o.t = "object" /\ name \in DOMAIN o.v THEN o.v[name] ELSE Undefined

\* types.ts
ENGLISH == "en"
INDONESIAN == "id"
Language == {ENGLISH, INDONESIAN}

SubtitleItem(start, end, text) == Obj([start |-> start, end |-> end, text |-> text])

\* a value is a Subtitle Item of the data model: numeric start and end, non-empty text
IsSubtitleItem(x) ==
    /\ x.t = "object"
    /\ Get(x, "start").t = "number"
    /\ Get(x, "end").t = "number"
    /\ Get(x, "text").t = "string"
    /\ Get(x, "text").v # ""

IsSubtitleSequence(x) ==
    /\ x.t = "array"
    /\ \A i \in 1..Len(x.v) : IsSubtitleItem(x.v[i])

-----------------------------------------------------------------------------
(* The inputs of the session.                                              *)

MAX_FILE_SIZE == 100 * 1024 * 1024

NoFile == [name |-> "", size |-> 0, type |-> ""]

Files ==
    { [name |-> "talk.mp3", size |-> MAX_FILE_SIZE, type |-> "audio/mpeg"],
      [name |-> "movie.mp4", size |-> MAX_FILE_SIZE + 1, type |-> "video/mp4"],
      [name |-> "notes.txt", size |-> 1024, type |-> "text/plain"] }

Urls == {"", "https://youtu.be/a", "https://youtu.be/b"}

NotCalled == <<>>

NoError == "null"
SizeError == "File size exceeds 100MB. Please upload a smaller file."
FormatError == "Invalid file format. Please use audio or video files."
ProvideError == "Please provide a file or a YouTube link."
ReadError == "Failed to read file"
ProcessError == "Failed to process media. Please ensure the file or link is valid."
NullReadError == "Cannot read properties of null (reading 'subtitles')"

-----------------------------------------------------------------------------
(* The external service: what generateContent may answer.                  *)

MaxItems == 2

Hello == SubtitleItem(Num(0), Num(2), Str("Hello"))
LacksText == Obj([start |-> Num(5), end |-> Num(7)])

Entries == {Hello, LacksText}

RECURSIVE SeqsUpTo(_, _)
SeqsUpTo(S, n) ==
    IF n = 0 THEN {<<>>}
    ELSE LET shorter == SeqsUpTo(S, n - 1)
         IN  shorter \cup {Append(s, x) : s \in shorter, x \in S}

\* what JSON.parse can return for the replies considered
JsonValues ==
    {Null, Num(5), Obj([note |-> Str("no speech")]), Obj([subtitles |-> Str("none")])}
        \cup {Obj([subtitles |-> Arr(s)]) : s \in SeqsUpTo(Entries, MaxItems)}

\* response.text: undefined, "", a text JSON.parse rejects, or the text of a JSON value
ResponseTexts ==
    {[kind |-> k, json |-> Null] : k \in {"undefined", "empty", "unparseable"}}
        \cup {[kind |-> "json", json |-> v] : v \in JsonValues}

\* generateContent rejects (network, authentication, model), or resolves with a response
Replies ==
    {[rejects |-> TRUE, text |-> [kind |-> "undefined", json |-> Null]]}
        \cup {[rejects |-> FALSE, text |-> t] : t \in ResponseTexts}

-----------------------------------------------------------------------------
(* services/gemini.ts: transcribeAndTranslateMedia                         *)

NoMedia == [base64 |-> "", mimeType |-> ""]
NoRequest == [text |-> [language |-> "", url |-> ""], inline |-> NoMedia, tools |-> {}]

targetLanguageName(targetLanguage_) ==
    IF targetLanguage_ = INDONESIAN THEN "Indonesian" ELSE "English"

\* BuildRequest with the final else of lines 72-74 missing: a call without a
\* source sends a request that has neither a link nor a payload
BuildRequest_sendsEmpty(targetLanguage_, mediaData, youtubeUrl_) ==
    IF youtubeUrl_ # ""
    THEN [thrown |-> FALSE,
          request |-> [text |-> [language |-> targetLanguageName(targetLanguage_),
                                 url |-> youtubeUrl_],
                       inline |-> NoMedia,
                       tools |-> {"googleSearch"}]]
    ELSE [thrown |-> FALSE,
          request |-> [text |-> [language |-> targetLanguageName(targetLanguage_),
                                 url |-> ""],
                       inline |-> mediaData,
                       tools |-> {}]]

\* BuildRequest with the search tool of line 59 set outside the branch
BuildRequest_alwaysSearches(targetLanguage_, mediaData, youtubeUrl_) ==
    IF youtubeUrl_ # ""
    THEN [thrown |-> FALSE,
          request |-> [text |-> [language |-> targetLanguageName(targetLanguage_),
                                 url |-> youtubeUrl_],
                       inline |-> NoMedia,
                       tools |-> {"googleSearch"}]]
    ELSE IF mediaData # NoMedia
    THEN [thrown |-> FALSE,
          request |-> [text |-> [language |-> targetLanguageName(targetLanguage_),
                                 url |-> ""],
                       inline |-> mediaData,
                       tools |-> {"googleSearch"}]]
    ELSE [thrown |-> TRUE, request |-> NoRequest]

\* lines 31-74: the contents and config built for one call; thrown is the
\* "No source provided" of line 73
BuildRequest(targetLanguage_, mediaData, youtubeUrl_) ==
    IF youtubeUrl_ # ""
    THEN [thrown |-> FALSE,
          request |-> [text |-> [language |-> targetLanguageName(targetLanguage_),
                                 url |-> youtubeUrl_],
                       inline |-> NoMedia,
                       tools |-> {"googleSearch"}]]
    ELSE IF mediaData # NoMedia
    THEN [thrown |-> FALSE,
          request |-> [text |-> [language |-> targetLanguageName(targetLanguage_),
                                 url |-> ""],
                       inline |-> mediaData,
                       tools |-> {}]]
    ELSE [thrown |-> TRUE, request |-> NoRequest]

\* lines 76-85: what the try block throws once generateContent has answered
\* ("none" when it returns)
ThrownInTry(reply) ==
    IF reply.rejects THEN "ExternalServiceFailure"
    ELSE IF reply.text.kind \in {"undefined", "empty"} THEN "EmptyResponse"
    ELSE IF reply.text.kind = "unparseable" THEN "MalformedResponse"
    ELSE "none"

\* lines 86-89: the catch block replaces whatever was thrown
Rethrown(thrown) == ProcessError

\* the promise the caller awaits, once generateContent has answered
Settle(reply) ==
    IF ThrownInTry(reply) # "none"
    THEN [rejected |-> TRUE, kind |-> ThrownInTry(reply),
          error |-> Rethrown(ThrownInTry(reply)), value |-> Undefined]
    ELSE [rejected |-> FALSE, kind |-> "none", error |-> NoError,
          value |-> reply.text.json]

\* the promise of a call that throws before generateContent is reached
SettleNoSource ==
    [rejected |-> TRUE, kind |-> "NoSourceProvided",
     error |-> Rethrown("NoSourceProvided"), value |-> Undefined]

\* what the caller can tell of a settled promise, apart from the value it carries
Seen(promise) == [rejected |-> promise.rejected, kind |-> promise.kind, error |-> promise.error]

NothingSettled == [rejected |-> FALSE, kind |-> "nothing", error |-> NoError]

-----------------------------------------------------------------------------
(* App.tsx: the session.                                                   *)

MaxInFlight == 2

\* One asynchronous invocation that has not settled: a handleGenerate of the
\* session (origin "app") with the file, link and language its closure holds, or
\* a call of transcribeAndTranslateMedia made by another caller (origin "direct").
\* pc "reading": convertFileToBase64 is pending; pc "awaiting": generateContent is.
Invocation(origin, pc, file_, targetLanguage_, mediaData, youtubeUrl_, request) ==
    [origin |-> origin, pc |-> pc, file |-> file_, targetLanguage |-> targetLanguage_,
     mediaData |-> mediaData, youtubeUrl |-> youtubeUrl_, request |-> request]

\* The file, link and language the closure of a handleGenerate held, kept with
\* the subtitles its response gave; NoGeneration when the handlers emptied them.
Generation(file_, youtubeUrl_, targetLanguage_) ==
    [file |-> file_, youtubeUrl |-> youtubeUrl_, targetLanguage |-> targetLanguage_]

NoGeneration == Generation(NoFile, "", "")

Remove(s, i) == SubSeq(s, 1, i - 1) \o SubSeq(s, i + 1, Len(s))

\* lines 300, 318, 351: the render reads subtitles.length and calls subtitles.map;
\* on a value that is no array it throws and the tree unmounts
Mounted == subtitles.t = "array"

\* validateAndSetFile without the size test of lines 35-39
validateAndSetFile_unchecked(selectedFile) ==
    /\ file' = selectedFile
    /\ youtubeUrl' = ""
    /\ error' = NoError
    /\ subtitles' = Arr(<<>>)

\* validateAndSetFile that leaves the link in place when it takes the file
validateAndSetFile_keepsLink(selectedFile) ==
    IF selectedFile.size > MAX_FILE_SIZE
    THEN /\ error' = SizeError
         /\ file' = NoFile
         /\ UNCHANGED <<youtubeUrl, subtitles>>
    ELSE /\ file' = selectedFile
         /\ error' = NoError
         /\ subtitles' = Arr(<<>>)
         /\ UNCHANGED youtubeUrl

\* lines 34-44
validateAndSetFile(selectedFile) ==
    IF selectedFile.size > MAX_FILE_SIZE
    THEN /\ error' = SizeError
         /\ file' = NoFile
         /\ UNCHANGED <<youtubeUrl, subtitles>>
    ELSE /\ file' = selectedFile
         /\ youtubeUrl' = ""
         /\ error' = NoError
         /\ subtitles' = Arr(<<>>)

\* lines 46-49, for a picked file
handleFileChange(selectedFile) ==
    /\ UNCHANGED serializer
    /\ Mounted
    /\ validateAndSetFile(selectedFile)
    /\ UNCHANGED <<loading, targetLanguage, gens, settled>>
    /\ generatedFor' = IF file' = selectedFile THEN NoGeneration ELSE generatedFor
    /\ UNCHANGED download

isMedia(type) == type \in {"audio/mpeg", "video/mp4"}

\* lines 73-86, for a dropped file
handleDrop(droppedFile) ==
    /\ UNCHANGED serializer
    /\ Mounted
    /\ IF isMedia(droppedFile.type)
       THEN validateAndSetFile(droppedFile)
       ELSE /\ error' = FormatError
            /\ UNCHANGED <<file, youtubeUrl, subtitles>>
    /\ UNCHANGED <<loading, targetLanguage, gens, settled>>
    /\ generatedFor' = IF isMedia(droppedFile.type) /\ file' = droppedFile
                       THEN NoGeneration ELSE generatedFor
    /\ UNCHANGED download

\* lines 51-59; the field reports a change of its value
handleYoutubeChange(value) ==
    /\ UNCHANGED serializer
    /\ Mounted
    /\ value # youtubeUrl
    /\ youtubeUrl' = value
    /\ file' = IF value # "" THEN NoFile ELSE file
    /\ subtitles' = Arr(<<>>)
    /\ error' = NoError
    /\ generatedFor' = NoGeneration
    /\ UNCHANGED <<loading, targetLanguage, gens, settled, download>>

\* lines 252-265
setTargetLanguage(language) ==
    /\ UNCHANGED serializer
    /\ Mounted
    /\ targetLanguage' = language
    /\ UNCHANGED <<file, youtubeUrl, loading, error, subtitles, gens, settled>>
    /\ UNCHANGED <<generatedFor, download>>

\* lines 141-147
reset ==
    /\ UNCHANGED serializer
    /\ file' = NoFile
    /\ youtubeUrl' = ""
    /\ subtitles' = Arr(<<>>)
    /\ error' = NoError
    /\ generatedFor' = NoGeneration
    /\ UNCHANGED <<loading, targetLanguage, gens, settled, download>>

\* lines 300-309: the button is rendered when there is something to reset
clickReset ==
    /\ Mounted
    /\ file # NoFile \/ youtubeUrl # "" \/ Len(subtitles.v) > 0
    /\ ~loading
    /\ reset

\* lines 88-98: the payload of the data URL the FileReader produces for the file
base64Of(file_) == "base64:" \o file_.name

\* lines 100-116: handleGenerate up to its first await
handleGenerate ==
    /\ UNCHANGED serializer
    /\ Len(gens) < MaxInFlight
    /\ IF file = NoFile /\ youtubeUrl = ""
       THEN /\ error' = ProvideError
            /\ UNCHANGED <<loading, gens>>
       ELSE /\ loading' = TRUE
            /\ error' = NoError
            /\ gens' = Append(gens,
                 IF file # NoFile
                 THEN Invocation("app", "reading", file, targetLanguage, NoMedia, "", NoRequest)
                 ELSE Invocation("app", "awaiting", NoFile, targetLanguage, NoMedia, youtubeUrl,
                                 BuildRequest(targetLanguage, NoMedia, youtubeUrl).request))
    /\ UNCHANGED <<file, youtubeUrl, subtitles, targetLanguage, settled>>
    /\ UNCHANGED <<generatedFor, download>>

\* the guard of the Generate button without its loading disjunct
generateDisabled_ignoresLoading == file = NoFile /\ youtubeUrl = ""

\* lines 279-281: the guard of the Generate button
generateDisabled == (file = NoFile /\ youtubeUrl = "") \/ loading

clickGenerate ==
    /\ Mounted
    /\ ~generateDisabled
    /\ handleGenerate

\* lines 91-93, 112-113: the read resolves and transcribeAndTranslateMedia is called
readResolves(i) ==
    /\ UNCHANGED serializer
    /\ i \in 1..Len(gens)
    /\ gens[i].pc = "reading"
    /\ LET mediaData == [base64 |-> base64Of(gens[i].file), mimeType |-> gens[i].file.type]
           built == BuildRequest(gens[i].targetLanguage, mediaData, "")
       IN  gens' = [gens EXCEPT ![i] =
                      Invocation("app", "awaiting", gens[i].file, gens[i].targetLanguage,
                                 mediaData, "", built.request)]
    /\ UNCHANGED <<file, youtubeUrl, loading, error, subtitles, targetLanguage, settled>>
    /\ UNCHANGED <<generatedFor, download>>

\* readRejects of a handleGenerate whose setLoading(false) is not in a finally
\* block but at the end of the try block
readRejects_staysLoading(i) ==
    /\ UNCHANGED serializer
    /\ i \in 1..Len(gens)
    /\ gens[i].pc = "reading"
    /\ error' = ReadError
    /\ gens' = Remove(gens, i)
    /\ UNCHANGED <<file, youtubeUrl, loading, subtitles, targetLanguage, settled>>
    /\ UNCHANGED <<generatedFor, download>>

\* lines 95, 118-122: the read rejects
readRejects(i) ==
    /\ UNCHANGED serializer
    /\ i \in 1..Len(gens)
    /\ gens[i].pc = "reading"
    /\ error' = ReadError
    /\ loading' = FALSE
    /\ gens' = Remove(gens, i)
    /\ UNCHANGED <<file, youtubeUrl, subtitles, targetLanguage, settled>>
    /\ UNCHANGED <<generatedFor, download>>

\* line 117 is reached and runs setSubtitles: the promise resolved with a value
\* whose property can be read
Stores(promise) == ~promise.rejected /\ promise.value.t \notin {"null", "undefined"}

\* afterTranscribe with a catch block that also clears the stored subtitles
afterTranscribe_clears(promise) ==
    /\ IF promise.rejected
       THEN /\ error' = promise.error
            /\ subtitles' = Arr(<<>>)
       ELSE IF promise.value.t \in {"null", "undefined"}
       THEN /\ error' = NullReadError
            /\ subtitles' = Arr(<<>>)
       ELSE /\ subtitles' = Get(promise.value, "subtitles")
            /\ UNCHANGED error
    /\ loading' = FALSE

\* lines 117-122: handleGenerate after its await of transcribeAndTranslateMedia
afterTranscribe(promise) ==
    /\ IF promise.rejected
       THEN /\ error' = promise.error
            /\ UNCHANGED subtitles
       ELSE IF promise.value.t \in {"null", "undefined"}
       THEN /\ error' = NullReadError
            /\ UNCHANGED subtitles
       ELSE /\ subtitles' = Get(promise.value, "subtitles")
            /\ UNCHANGED error
    /\ loading' = FALSE

\* serviceAnswers of a service function that sends the request again when the
\* call fails
serviceAnswers_retries(i, reply) ==
    /\ UNCHANGED serializer
    /\ i \in 1..Len(gens)
    /\ gens[i].pc = "awaiting"
    /\ settled' = Seen(Settle(reply))
    /\ IF Settle(reply).rejected
       THEN UNCHANGED <<gens, loading, error, subtitles>>
       ELSE /\ gens' = Remove(gens, i)
            /\ IF gens[i].origin = "app"
               THEN afterTranscribe(Settle(reply))
               ELSE UNCHANGED <<loading, error, subtitles>>
    /\ generatedFor' =
          IF gens[i].origin = "app" /\ Stores(Settle(reply))
          THEN Generation(gens[i].file, gens[i].youtubeUrl, gens[i].targetLanguage)
          ELSE generatedFor
    /\ UNCHANGED <<file, youtubeUrl, targetLanguage, download>>

\* generateContent answers invocation i and the code that awaits it runs
serviceAnswers(i, reply) ==
    /\ UNCHANGED serializer
    /\ i \in 1..Len(gens)
    /\ gens[i].pc = "awaiting"
    /\ settled' = Seen(Settle(reply))
    /\ gens' = Remove(gens, i)
    /\ IF gens[i].origin = "app"
       THEN afterTranscribe(Settle(reply))
       ELSE UNCHANGED <<loading, error, subtitles>>
    /\ generatedFor' =
          IF gens[i].origin = "app" /\ Stores(Settle(reply))
          THEN Generation(gens[i].file, gens[i].youtubeUrl, gens[i].targetLanguage)
          ELSE generatedFor
    /\ UNCHANGED <<file, youtubeUrl, targetLanguage, download>>

\* a call of transcribeAndTranslateMedia by a caller other than the session
callTranscribe(targetLanguage_, mediaData, youtubeUrl_) ==
    /\ UNCHANGED serializer
    /\ Len(gens) < MaxInFlight
    /\ LET built == BuildRequest(targetLanguage_, mediaData, youtubeUrl_)
       IN  IF built.thrown
           THEN /\ settled' = Seen(SettleNoSource)
                /\ UNCHANGED gens
           ELSE /\ gens' = Append(gens,
                      Invocation("direct", "awaiting", NoFile, targetLanguage_, mediaData,
                                 youtubeUrl_, built.request))
                /\ UNCHANGED settled
    /\ UNCHANGED <<file, youtubeUrl, loading, error, subtitles, targetLanguage>>
    /\ UNCHANGED <<generatedFor, download>>

\* String.prototype.split(separator)[0]: the text before the first separator,
\* the whole text when it has none
splitFirst(str, separator) ==
    LET at == {i \in 1..Len(str) : SubSeq(str, i, i) = separator}
    IN  IF at = {} THEN str
        ELSE SubSeq(str, 1, (CHOOSE i \in at : \A j \in at : i <= j) - 1)

\* lines 128, 136
exportPrefix(file_) ==
    IF file_ # NoFile THEN splitFirst(file_.name, ".") ELSE "youtube_video"

\* lines 129, 137
srtFileName(prefix, targetLanguage_) == prefix \o "_" \o targetLanguage_ \o ".srt"
txtFileName(prefix, targetLanguage_) == prefix \o "_" \o targetLanguage_ \o "_transcript.txt"

\* lines 125-131, 372-380: the button is rendered when there are subtitles.  The
\* content handed to downloadFile is generateSrtString(subtitles) of this state;
\* the state keeps the name the file is given.
handleDownloadSrt ==
    /\ UNCHANGED serializer
    /\ Mounted
    /\ Len(subtitles.v) # 0
    /\ download' = [format |-> "srt",
                    fileName |-> srtFileName(exportPrefix(file), targetLanguage)]
    /\ UNCHANGED <<file, youtubeUrl, loading, error, subtitles, targetLanguage, gens,
                   settled, generatedFor>>

\* lines 133-139, 372-387
handleDownloadTxt ==
    /\ UNCHANGED serializer
    /\ Mounted
    /\ Len(subtitles.v) # 0
    /\ download' = [format |-> "txt",
                    fileName |-> txtFileName(exportPrefix(file), targetLanguage)]
    /\ UNCHANGED <<file, youtubeUrl, loading, error, subtitles, targetLanguage, gens,
                   settled, generatedFor>>

Init ==
    /\ file = NoFile
    /\ youtubeUrl = ""
    /\ loading = FALSE
    /\ error = NoError
    /\ subtitles = Arr(<<>>)
    /\ targetLanguage = ENGLISH
    /\ gens = <<>>
    /\ settled = NothingSettled
    /\ generatedFor = NoGeneration
    /\ download = NotCalled
    /\ LocalTZA = 0
    /\ input = NotCalled
    /\ output = NotCalled

\* the session as its user drives it
Next ==
    \/ \E f \in Files : handleFileChange(f)
    \/ \E f \in Files : handleDrop(f)
    \/ \E u \in Urls : handleYoutubeChange(u)
    \/ \E l \in Language : setTargetLanguage(l)
    \/ clickGenerate
    \/ clickReset
    \/ \E i \in 1..MaxInFlight : readResolves(i)
    \/ \E i \in 1..MaxInFlight : readRejects(i)
    \/ \E i \in 1..MaxInFlight, r \in Replies : serviceAnswers(i, r)

Spec == Init /\ [][Next]_vars

\* The session when every pending promise settles: the FileReader fires onload
\* or onerror, and generateContent resolves or rejects.
SpecFair ==
    /\ Init
    /\ [][Next]_vars
    /\ WF_vars(\E i \in 1..MaxInFlight : readResolves(i) \/ readRejects(i))
    /\ WF_vars(\E i \in 1..MaxInFlight, r \in Replies : serviceAnswers(i, r))

\* the session with its exports
NextExport ==
    \/ \E f \in Files : handleFileChange(f)
    \/ \E f \in Files : handleDrop(f)
    \/ \E u \in Urls : handleYoutubeChange(u)
    \/ \E l \in Language : setTargetLanguage(l)
    \/ clickGenerate
    \/ clickReset
    \/ \E i \in 1..MaxInFlight : readResolves(i)
    \/ \E i \in 1..MaxInFlight : readRejects(i)
    \/ \E i \in 1..MaxInFlight, r \in Replies : serviceAnswers(i, r)
    \/ handleDownloadSrt
    \/ handleDownloadTxt

SpecExport == Init /\ [][NextExport]_vars

\* the arguments another caller may give for mediaData
MediaDatas == {NoMedia, [base64 |-> "base64:clip.mp4", mimeType |-> "video/mp4"]}

\* The handlers and the service function called one after the other, as a test
\* of the modules calls them: handleGenerate without the button's guard, and
\* transcribeAndTranslateMedia with any arguments.
NextDirect ==
    \/ \E f \in Files : handleFileChange(f)
    \/ \E u \in Urls : handleYoutubeChange(u)
    \/ gens = <<>> /\ handleGenerate
    \/ \E l \in Language, m \in MediaDatas, u \in Urls :
          gens = <<>> /\ callTranscribe(l, m, u)
    \/ \E i \in 1..MaxInFlight : readResolves(i)
    \/ \E i \in 1..MaxInFlight : readRejects(i)
    \/ \E i \in 1..MaxInFlight, r \in Replies : serviceAnswers(i, r)

SpecDirect == Init /\ [][NextDirect]_vars

-----------------------------------------------------------------------------
(* The claims about the session and the service function.                  *)

\* C1: a parseable reply without a subtitles array, or with an entry that
\* lacks a numeric start, a numeric end or a non-empty text, is rejected as a
\* whole: the session never stores anything but a sequence of Subtitle Items.
C1_AllOrNothing == IsSubtitleSequence(subtitles)

Awaiting == {i \in 1..Len(gens) : gens[i].pc = "awaiting"}

\* C5: no file above 100 MiB is ever the selected file, is ever read for
\* encoding or is ever part of a request, picking or dropping one fails with
\* the size error and starts nothing, and a file of exactly 100 MiB is taken.
C5_Held ==
    /\ file.size <= MAX_FILE_SIZE
    /\ \A i \in 1..Len(gens) : gens[i].file.size <= MAX_FILE_SIZE

C5_Selecting ==
    \A f \in Files :
        handleFileChange(f) \/ (isMedia(f.type) /\ handleDrop(f)) =>
            IF f.size > MAX_FILE_SIZE
            THEN file' = NoFile /\ error' = SizeError /\ gens' = gens
            ELSE file' = f /\ error' = NoError

C5_SizeLimit == []C5_Held /\ [][C5_Selecting]_vars

\* the file of exactly 100 MiB was encoded and sent, and the oversize file
\* picked meanwhile was refused
C5_Witness ==
    /\ \E i \in Awaiting :
          /\ gens[i].file.size = MAX_FILE_SIZE
          /\ gens[i].request.inline.base64 = base64Of(gens[i].file)
    /\ file = NoFile
    /\ error = SizeError

\* C6: without a payload and without a link nothing is sent: the service
\* function rejects and no invocation waits for generateContent, and
\* handleGenerate sets its error and leaves loading alone.
C6_Sent ==
    \A i \in Awaiting :
        /\ gens[i].mediaData # NoMedia \/ gens[i].youtubeUrl # ""
        /\ gens[i].request # NoRequest

C6_Calling ==
    /\ \A l \in Language :
          callTranscribe(l, NoMedia, "") =>
              settled'.rejected /\ settled'.error # NoError /\ gens' = gens
    /\ handleGenerate /\ file = NoFile /\ youtubeUrl = "" =>
          error' = ProvideError /\ loading' = loading /\ gens' = gens

C6_NoSource == []C6_Sent /\ [][C6_Calling]_vars

\* both have happened: a call without a source was rejected, and handleGenerate
\* ran without a file or a link
C6_Witness ==
    /\ settled.kind = "NoSourceProvided"
    /\ settled.rejected
    /\ error = ProvideError
    /\ ~loading
    /\ gens = <<>>

\* C7: a request for a link has the search tool, the link in its text and no
\* inline part; a request for a payload has the payload and its media type as
\* inline part and no tool; no request has both or neither.
C7_ModeDispatch ==
    \A i \in Awaiting :
        LET g == gens[i]
            r == g.request
        IN  /\ g.youtubeUrl # "" =>
                  r.tools = {"googleSearch"} /\ r.text.url = g.youtubeUrl /\ r.inline = NoMedia
            /\ g.youtubeUrl = "" =>
                  g.mediaData # NoMedia /\ r.inline = g.mediaData /\ r.tools = {} /\ r.text.url = ""
            /\ (r.tools # {}) # (r.inline # NoMedia)

\* the session's request for a file that was read
C7_Witness ==
    \E i \in Awaiting :
        /\ gens[i].origin = "app"
        /\ gens[i].request.inline = [base64 |-> "base64:talk.mp3", mimeType |-> "audio/mpeg"]
        /\ gens[i].request.tools = {}

\* C8: an absent, empty or unparseable reply rejects the promise, puts a
\* message in error, ends loading and leaves the stored subtitles (and so the
\* mounted tree) as they were.
EmptyOrUnparseable(reply) ==
    ~reply.rejects /\ reply.text.kind \in {"undefined", "empty", "unparseable"}

C8_Answering ==
    \A i \in 1..MaxInFlight, r \in {x \in Replies : EmptyOrUnparseable(x)} :
        serviceAnswers(i, r) /\ gens[i].origin = "app" =>
            /\ settled'.rejected
            /\ error' # NoError
            /\ ~loading'
            /\ subtitles' = subtitles
            /\ Mounted'

C8_FailedReply == [][C8_Answering]_vars

\* a generation failed on such a reply while subtitles of an earlier one were stored
C8_Witness ==
    /\ settled.kind \in {"EmptyResponse", "MalformedResponse"}
    /\ error = ProcessError
    /\ ~loading
    /\ subtitles = Arr(<<Hello, Hello>>)

\* C9: failures of different kinds reach the caller as different errors.
C9_Typed ==
    settled.rejected /\ settled'.rejected /\ settled.kind # settled'.kind =>
        settled.error # settled'.error

C9_TypedFailures == [][C9_Typed]_vars

\* C10: at most one invocation waits for generateContent.
C10_OneInFlight == Cardinality(Awaiting) <= 1

\* a call is pending while the user has changed the link and the language
C10_Witness ==
    /\ Len(gens) = 1
    /\ gens[1].pc = "awaiting"
    /\ gens[1].youtubeUrl = "https://youtu.be/a"
    /\ youtubeUrl = "https://youtu.be/b"
    /\ targetLanguage # gens[1].targetLanguage
    /\ loading

Reading == {i \in 1..Len(gens) : gens[i].pc = "reading"}

\* C11: an invocation starts only with a generate action and sends at most one
\* request: a request goes out only in the generate action itself (link) or
\* when that action's file read resolves (file), one at a time, and when the
\* call fails or its reply is absent, empty or unparseable the invocation is
\* over: nothing is sent again until the next generate action.
FailedCall(reply) == reply.rejects \/ EmptyOrUnparseable(reply)

C11_Step ==
    /\ Len(gens') > Len(gens) => clickGenerate /\ Len(gens') = Len(gens) + 1
    /\ Cardinality(Awaiting') > Cardinality(Awaiting) =>
          /\ Cardinality(Awaiting') = Cardinality(Awaiting) + 1
          /\ \/ clickGenerate /\ Reading' = Reading
             \/ \E i \in Reading : readResolves(i) /\ Len(gens') = Len(gens)
    /\ \A i \in Awaiting, r \in {x \in Replies : FailedCall(x)} :
          serviceAnswers(i, r) => gens' = Remove(gens, i)

C11_SingleAttempt == [][C11_Step]_vars

\* the call for the link failed, and nothing is in flight while the link is
\* still the selected source
C11_Witness ==
    /\ settled.rejected
    /\ settled.kind \in {"EmptyResponse", "MalformedResponse"}
    /\ error = ProcessError
    /\ youtubeUrl = "https://youtu.be/a"
    /\ gens = <<>>
    /\ ~loading

\* C12: a file and a non-empty link are never selected together, so every
\* generate action holds one source, and what it passes to the request
\* builder is either a payload or a link, never both and never neither.
C12_OneSource ==
    /\ ~(file # NoFile /\ youtubeUrl # "")
    /\ \A i \in 1..Len(gens) :
          gens[i].origin = "app" => ((gens[i].file # NoFile) # (gens[i].youtubeUrl # ""))
    /\ \A i \in Awaiting : (gens[i].mediaData # NoMedia) # (gens[i].youtubeUrl # "")

\* a file was taken and sent, then a link replaced it, then an oversize file was
\* refused while the link stayed
C12_Witness ==
    /\ \E i \in Awaiting : gens[i].mediaData # NoMedia /\ gens[i].file # NoFile
    /\ youtubeUrl = "https://youtu.be/b"
    /\ file = NoFile
    /\ error = SizeError

\* C13: stored subtitles come from a generation for the source that is selected
\* now, so the prefix an export would take is that of the source they were
\* generated from; a response to a request whose file or link the user has
\* changed meanwhile is not stored.
C13_Stored ==
    Mounted /\ Len(subtitles.v) # 0 =>
        /\ generatedFor.file = file
        /\ generatedFor.youtubeUrl = youtubeUrl
        /\ exportPrefix(file) = exportPrefix(generatedFor.file)

\* the reply carries a non-empty sequence of Subtitle Items
Transcribed(reply) ==
    /\ ~FailedCall(reply)
    /\ IsSubtitleSequence(Get(reply.text.json, "subtitles"))
    /\ Get(reply.text.json, "subtitles").v # <<>>

C13_Storing ==
    \A i \in Awaiting, r \in {x \in Replies : Transcribed(x)} :
        /\ serviceAnswers(i, r)
        /\ gens[i].origin = "app"
        /\ gens[i].file # file \/ gens[i].youtubeUrl # youtubeUrl
        => subtitles' = subtitles

C13_Exporting ==
    handleDownloadSrt \/ handleDownloadTxt =>
        download'.fileName \in
            { srtFileName(exportPrefix(generatedFor.file), targetLanguage),
              txtFileName(exportPrefix(generatedFor.file), targetLanguage) }

C13_CurrentSource == []C13_Stored /\ [][C13_Storing /\ C13_Exporting]_vars

\* C14: the language in the name of an exported file is the language that was
\* sent to the service for the subtitles in it, whatever languages were
\* selected since.
C14_Exportable ==
    Mounted /\ Len(subtitles.v) # 0 => targetLanguage = generatedFor.targetLanguage

C14_Exporting ==
    /\ handleDownloadSrt =>
          download'.fileName = srtFileName(exportPrefix(file), generatedFor.targetLanguage)
    /\ handleDownloadTxt =>
          download'.fileName = txtFileName(exportPrefix(file), generatedFor.targetLanguage)

C14_LanguageTag == []C14_Exportable /\ [][C14_Exporting]_vars

\* C15: loading is true exactly while a generate action has started and not
\* completed; the action's completion, by a failed read, a failed call or an
\* answer, leaves loading false; and when the read and the call settle, a
\* session that is loading is later not loading.
C15_Tracks == loading <=> gens # <<>>

C15_Completing == Len(gens') < Len(gens) => ~loading'

C15_LoadingEnds ==
    /\ []C15_Tracks
    /\ [][C15_Completing]_vars
    /\ (loading ~> ~loading)

\* the read of the selected file failed and the controls are enabled again
C15_Witness ==
    /\ error = ReadError
    /\ file # NoFile
    /\ gens = <<>>
    /\ ~loading
    /\ ~generateDisabled

-----------------------------------------------------------------------------
(* unnamed/part_001 (utils/srt-helper): the serializer.  A string is the   *)
(* sequence of its characters.  A number of seconds is whole + micro/10^6  *)
(* with 0 <= micro < 10^6, which is exact enough to round to milliseconds. *)

Seconds(whole, micro) == [whole |-> whole, micro |-> micro]

msPerSecond == 1000
msPerMinute == 60 * msPerSecond
msPerHour == 60 * msPerMinute
msPerDay == 24 * msPerHour

DigitChars == <<"0", "1", "2", "3", "4", "5", "6", "7", "8", "9">>

\* Number.prototype.toString of a non-negative integer
RECURSIVE toString(_)
toString(n) ==
    IF n < 10 THEN <<DigitChars[n + 1]>>
    ELSE toString(n \div 10) \o <<DigitChars[(n % 10) + 1]>>

\* String.prototype.padStart(targetLength, '0')
RECURSIVE padStart(_, _)
padStart(str, targetLength) ==
    IF Len(str) >= targetLength THEN str ELSE padStart(<<"0">> \o str, targetLength)

\* String.prototype.substring(start)
substring(str, start) == SubSeq(str, start + 1, Len(str))

\* Number.prototype.toFixed(3) of a fraction 0 <= x < 1 given in microseconds:
\* the nearest multiple of 1/1000, the larger one on a tie
toFixed3(micro) ==
    LET n == (micro + 500) \div 1000
    IN  toString(n \div 1000) \o <<".">> \o padStart(toString(n % 1000), 3)

\* lines 7-8, 10-11: new Date(0), setSeconds(seconds), then the time value of the
\* date.  setSeconds works on the local time: it keeps the local day, hour,
\* minute and millisecond of the date and puts the integer part of its
\* argument in the seconds field, then converts back to UTC.
timeAfterSetSeconds(seconds) ==
    LET t == 0 + LocalTZA
        day == t \div msPerDay
        hour == (t \div msPerHour) % 24
        min == (t \div msPerMinute) % 60
        milli == t % msPerSecond
        time == hour * msPerHour + min * msPerMinute + seconds.whole * msPerSecond + milli
    IN  (day * msPerDay + time) - LocalTZA

getUTCMinutes(t) == (t \div msPerMinute) % 60
getUTCSeconds(t) == (t \div msPerSecond) % 60

\* lines 6-15
formatSrtTime(seconds) ==
    LET date == timeAfterSetSeconds(seconds)
        hours == seconds.whole \div 3600
        mins == padStart(toString(getUTCMinutes(date)), 2)
        secs == padStart(toString(getUTCSeconds(date)), 2)
        ms == substring(toFixed3(seconds.micro), 2)
    IN  padStart(toString(hours), 2) \o <<":">> \o mins \o <<":">> \o secs \o <<",">> \o ms

\* Array.prototype.join('\n')
RECURSIVE join(_)
join(strs) ==
    IF Len(strs) = 0 THEN <<>>
    ELSE IF Len(strs) = 1 THEN strs[1]
    ELSE strs[1] \o <<"\n">> \o join(Tail(strs))

\* lines 20-28
generateSrtString(subtitles_) ==
    join([index \in 1..Len(subtitles_) |->
            LET item == subtitles_[index]
                startTime == formatSrtTime(item.start)
                endTime == formatSrtTime(item.end)
            IN  toString(index) \o <<"\n">> \o startTime \o <<" ", "-", "-", ">", " ">>
                    \o endTime \o <<"\n">> \o item.text \o <<"\n">>])

-----------------------------------------------------------------------------
(* The serializer functions called on their own.                           *)

\* Hosts: UTC, Asia/Kolkata (+05:30), America/New_York (-05:00) and
\* Africa/Monrovia, which was 44 min 30 s behind UTC until 1972.
TimeZones == {0, 19800 * msPerSecond, (0 - 18000) * msPerSecond, (0 - 2670) * msPerSecond}

WholeSeconds == {0, 2, 59, 60, 3599, 3600, 86399, 86400, 90000, 359999, 360000}

\* fractions in microseconds; 999499 stands for the double nearest to x.9995,
\* which lies below it, 999600 for x.9996
Fractions == {0, 400, 499999, 500000, 500400, 999000, 999499, 999600, 999999}

SecondsInputs == {Seconds(w, f) : w \in WholeSeconds, f \in Fractions}

InitTime ==
    /\ file = NoFile
    /\ youtubeUrl = ""
    /\ loading = FALSE
    /\ error = NoError
    /\ subtitles = Arr(<<>>)
    /\ targetLanguage = ENGLISH
    /\ gens = <<>>
    /\ settled = NothingSettled
    /\ generatedFor = NoGeneration
    /\ download = NotCalled
    /\ LocalTZA \in TimeZones
    /\ input \in SecondsInputs
    /\ output = NotCalled

callFormatSrtTime ==
    /\ output = NotCalled
    /\ output' = formatSrtTime(input)
    /\ UNCHANGED <<session, LocalTZA, input>>

\* formatSrtTime on any host
SpecTime == InitTime /\ [][callFormatSrtTime]_vars

\* formatSrtTime on a host in UTC
InitTimeUTC == InitTime /\ LocalTZA = 0

SpecTimeUTC == InitTimeUTC /\ [][callFormatSrtTime]_vars

MaxCues == 2

HelloCue == [start |-> Seconds(0, 0), end |-> Seconds(2, 500000), text |-> <<"H", "e", "l", "l", "o">>]
WorldCue == [start |-> Seconds(2, 500000), end |-> Seconds(5, 0), text |-> <<"W", "o", "r", "l", "d">>]
LateCue == [start |-> Seconds(3599, 999600), end |-> Seconds(90000, 0), text |-> <<"L", "a", "t", "e", "r">>]

Cues == {HelloCue, WorldCue, LateCue}

InitSrt ==
    /\ file = NoFile
    /\ youtubeUrl = ""
    /\ loading = FALSE
    /\ error = NoError
    /\ subtitles = Arr(<<>>)
    /\ targetLanguage = ENGLISH
    /\ gens = <<>>
    /\ settled = NothingSettled
    /\ generatedFor = NoGeneration
    /\ download = NotCalled
    /\ LocalTZA \in TimeZones
    /\ input \in SeqsUpTo(Cues, MaxCues)
    /\ output = NotCalled

callGenerateSrtString ==
    /\ output = NotCalled
    /\ output' = [called |-> TRUE, srt |-> generateSrtString(input)]
    /\ UNCHANGED <<session, LocalTZA, input>>

\* generateSrtString on any host
SpecSrt == InitSrt /\ [][callGenerateSrtString]_vars

-----------------------------------------------------------------------------
(* The claims about the serializer.                                        *)

DigitValue(c) == CHOOSE d \in 0..9 : DigitChars[d + 1] = c

IsDigits(str) == \A i \in 1..Len(str) : \E d \in 0..9 : DigitChars[d + 1] = str[i]

RECURSIVE parseInt(_)
parseInt(str) ==
    IF Len(str) = 0 THEN 0
    ELSE 10 * parseInt(SubSeq(str, 1, Len(str) - 1)) + DigitValue(str[Len(str)])

\* the place of the first c in str, 0 when there is none
IndexOf(str, c) ==
    IF \E i \in 1..Len(str) : str[i] = c
    THEN CHOOSE i \in 1..Len(str) : str[i] = c /\ \A j \in 1..(i - 1) : str[j] # c
    ELSE 0

\* the fields of HH:MM:SS,mmm, HH being everything before the first colon
Fields(stamp) ==
    LET c == IndexOf(stamp, ":")
    IN  [HH |-> SubSeq(stamp, 1, c - 1),
         MM |-> SubSeq(stamp, c + 1, c + 2),
         SS |-> SubSeq(stamp, c + 4, c + 5),
         mmm |-> SubSeq(stamp, c + 7, c + 9),
         separators |-> <<stamp[c], stamp[c + 3], stamp[c + 6]>>,
         length |-> c + 9]

WellFormed(stamp) ==
    /\ IndexOf(stamp, ":") >= 3
    /\ Len(stamp) = IndexOf(stamp, ":") + 9
    /\ Fields(stamp).separators = <<":", ":", ",">>
    /\ IsDigits(Fields(stamp).HH)
    /\ IsDigits(Fields(stamp).MM)
    /\ IsDigits(Fields(stamp).SS)
    /\ IsDigits(Fields(stamp).mmm)

\* the whole seconds a stamp reads as: HH*3600 + MM*60 + SS
DecodedWhole(stamp) ==
    parseInt(Fields(stamp).HH) * 3600 + parseInt(Fields(stamp).MM) * 60
        + parseInt(Fields(stamp).SS)

\* C2: the stamp of seconds reads back to within 1 millisecond of seconds: its
\* millisecond field is the fraction rounded to milliseconds, and a fraction
\* that rounds to 1000 ms adds one to the seconds read back.
C2_RoundTrip ==
    output # NotCalled =>
        LET rounded == (input.micro + 500) \div 1000
            micros == (DecodedWhole(output) - input.whole) * 1000000
                          + parseInt(Fields(output).mmm) * 1000 - input.micro
        IN  /\ WellFormed(output)
            /\ parseInt(Fields(output).mmm) = rounded % 1000
            /\ DecodedWhole(output) = input.whole + (rounded \div 1000)
            /\ micros \in (0 - 1000)..1000

\* C3: the stamp is HH:MM:SS,mmm with HH = floor(seconds / 3600) in at least 2
\* digits and never taken modulo 24, MM = floor((seconds mod 3600) / 60) and
\* SS = floor(seconds mod 60) in exactly 2 digits, and mmm in exactly 3 digits.
C3_Fields ==
    /\ WellFormed(output)
    /\ Fields(output).HH = padStart(toString(input.whole \div 3600), 2)
    /\ Fields(output).MM = padStart(toString((input.whole % 3600) \div 60), 2)
    /\ Fields(output).SS = padStart(toString(input.whole % 60), 2)
    /\ parseInt(Fields(output).MM) \in 0..59
    /\ parseInt(Fields(output).SS) \in 0..59
    /\ Len(Fields(output).mmm) = 3

C3_Format == output # NotCalled => C3_Fields

\* C3 on the hosts whose zone was a whole number of minutes from UTC in 1970
C3_FormatWholeMinuteZones ==
    output # NotCalled /\ LocalTZA % msPerMinute = 0 => C3_Fields

\* the lines of a text
RECURSIVE Lines(_)
Lines(str) ==
    IF IndexOf(str, "\n") = 0 THEN <<str>>
    ELSE <<SubSeq(str, 1, IndexOf(str, "\n") - 1)>>
             \o Lines(SubSeq(str, IndexOf(str, "\n") + 1, Len(str)))

Arrow == <<" ", "-", "-", ">", " ">>

\* n blocks in the order of the sequence: the number, the two stamps, the text,
\* one empty line between two blocks, none before the first block and nothing
\* after the line end of the last text
C4_BlockLines ==
    LET n == Len(input)
        lines == Lines(output.srt)
    IN  IF n = 0 THEN output.srt = <<>>
        ELSE /\ Len(lines) = 4 * n
             /\ lines[4 * n] = <<>>
             /\ output.srt[Len(output.srt)] = "\n"
             /\ \A i \in 1..n :
                   /\ lines[4 * i - 3] = toString(i)
                   /\ lines[4 * i - 2] =
                          formatSrtTime(input[i].start) \o Arrow \o formatSrtTime(input[i].end)
                   /\ lines[4 * i - 1] = input[i].text
                   /\ lines[4 * i] = <<>>

ScenarioSrt ==
    <<"1", "\n", "0", "0", ":", "0", "0", ":", "0", "0", ",", "0", "0", "0", " ", "-",
        "-", ">", " ", "0", "0", ":", "0", "0", ":", "0", "2", ",", "5", "0", "0", "\n",
        "H", "e", "l", "l", "o", "\n", "\n", "2", "\n", "0", "0", ":", "0", "0", ":", "0",
        "2", ",", "5", "0", "0", " ", "-", "-", ">", " ", "0", "0", ":", "0", "0", ":", "0",
        "5", ",", "0", "0", "0", "\n", "W", "o", "r", "l", "d", "\n">>

\* C4: generateSrtString emits the blocks stated above, and the sequence
\* [{0, 2.5, Hello}, {2.5, 5, World}] gives the text of the spec's scenario.
C4_Blocks ==
    output # NotCalled =>
        /\ C4_BlockLines
        /\ input = <<HelloCue, WorldCue>> => output.srt = ScenarioSrt

\* C4 without its scenario: the blocks, whatever formatSrtTime returns
C4_BlocksOnly == output # NotCalled => C4_BlockLines

====
